---- MODULE Spec2Model ----
(***************************************************************************)
(* WanVideoVACEContextManager (VaceContextManager/vace_context_manager.py) *)
(* as a state machine: a caller invokes process or                        *)
(* calculate_optimal_alignment, the partition loop of                     *)
(* _calculate_window_boundaries runs one iteration per step, and the call  *)
(* returns the schedule (and, for process, masks and context options).    *)
(* Floats are modelled exactly: the alignment quality is the pair          *)
(* (alignment_score, total_boundaries), the mask holds 0 for 0.0 and 1 for *)
(* 1.0.  ConcSpec runs a second process call in a thread of its own,       *)
(* UiSpec takes the arguments from the ranges INPUT_TYPES declares.        *)
(* MasterBatcher (MasterBatcher/master_batcher.py) is the second machine:  *)
(* BatcherSpec runs load_batch on the widgets of the node, the front end   *)
(* incrementing batch_index after each run.                                *)
(***************************************************************************)
EXTENDS Integers, Sequences, FiniteSets, TLC

\* ---------------------------------------------------------------- bounds
\* Largest keyframe count a caller passes.
MaxKeyframes == 4
\* Largest interpolation_multiplier a caller passes.
MaxSpacing == 8
\* Largest context_window_size a caller passes.
MaxWindowSize == 32
\* Largest overlap_frames a caller passes.
MaxOverlap == 3

\* ------------------------------------------------------ program constants
\* process: "if keyframes.shape[0] < 2".
MinKeyframes == 2
\* process: "if interpolation_multiplier < 6".
MinMultiplier == 6
\* _find_optimal_window_size: "for multiplier in range(1, 10)".
MultiplierStop == 10
\* _find_optimal_window_size: "if candidate >= 16".
MinCandidate == 16

\* The inputs a caller may pass (process validates, the helper does not).
KeyframeCounts == 0..MaxKeyframes
Multipliers == (MinMultiplier - 1)..MaxSpacing
WindowSizes == 0..MaxWindowSize
Overlaps == 0..MaxOverlap

\* The longest partition of a timeline within the bounds has one window per
\* frame; a loop that does not advance is cut one iteration later.
MaxIterations == MaxKeyframes * MaxSpacing + 2

VARIABLES
    pc,                   \* "idle" | "loop" | "assess" | "returned" | "raised"
    entry,                \* the method the caller invoked
    args,                 \* the arguments of the call in progress
    opaque,               \* process: vae, keyframes (content), vace_strength
    total_frames,         \* calculate_optimal_alignment: total_frames
    keyframe_positions,   \* calculate_optimal_alignment: keyframe_positions
    optimal_window_size,  \* calculate_optimal_alignment: optimal_window_size
    windows,              \* _calculate_window_boundaries: windows
    start,                \* _calculate_window_boundaries: start
    schedule,             \* <<>> or <<the dict calculate_optimal_alignment returns>>
    masks,                \* process: masks (a sequence, frame p at index p + 1)
    context_options,      \* <<>> or <<the context_options dict of process>>
    encoder_calls,        \* vace_encoder.encode calls made by the call in progress
    warned,               \* process printed the poor-alignment warning
    error,                \* "" or the exception raised to the caller
    prev,                 \* <<>> or <<an earlier call of the caller and its results>>
    other,                \* the frame of a process call running in a second thread
    disk,                 \* MasterBatcher: the directories on disk and their listings
    folder_paths,         \* MasterBatcher widget: folder_paths (a string, as characters)
    batch_size,           \* MasterBatcher widget: batch_size
    sort_method,          \* MasterBatcher widget: sort_method
    batch_index,          \* MasterBatcher widget: batch_index
    stage,                \* "queued" (load_batch is to run) | "ran" (it has returned)
    descriptor_read,      \* load_batch: the last run evaluated batch_map[batch_index]
    output,               \* <<>> or <<the dict load_batch returned>>
    batch_error,          \* "" or the exception load_batch raised
    runs                  \* the runs of load_batch since the widgets were set

\* The caller and the call it runs in the first thread.
first == <<pc, entry, args, opaque, total_frames, keyframe_positions,
           optimal_window_size, windows, start, schedule, masks, context_options,
           encoder_calls, warned, error, prev>>

\* The MasterBatcher node, its widgets and the folders it reads.
batcher == <<disk, folder_paths, batch_size, sort_method, batch_index, stage,
             descriptor_read, output, batch_error, runs>>

vars == <<first, other, batcher>>

\* ------------------------------------------------------- python built-ins
Min(a, b) == IF a <= b THEN a ELSE b

Abs(x) == IF x < 0 THEN -x ELSE x

\* x in list
In(x, list) == \E i \in 1..Len(list) : list[i] = x

\* ------------------------------------------- calculate_optimal_alignment
\* total_frames = (num_keyframes - 1) * interpolation_multiplier + 1
TotalFramesMutant(num_keyframes, interpolation_multiplier) ==
    num_keyframes * interpolation_multiplier + 1

TotalFrames(num_keyframes, interpolation_multiplier) ==
    (num_keyframes - 1) * interpolation_multiplier + 1

\* [i * interpolation_multiplier for i in range(num_keyframes)]
KeyframePositions(num_keyframes, interpolation_multiplier) ==
    [k \in 1..num_keyframes |-> (k - 1) * interpolation_multiplier]

\* ---------------------------------------------- _find_optimal_window_size
\* The for loop over range(1, 10): the (candidate, score) pairs appended
\* from `multiplier` on.
RECURSIVE SpacingCandidates(_, _, _)
SpacingCandidates(desired_size, spacing, multiplier) ==
    IF multiplier >= MultiplierStop THEN <<>>
    ELSE LET candidate == spacing * multiplier
         IN  (IF candidate >= MinCandidate
                 THEN << <<candidate, Abs(candidate - desired_size)>> >>
                 ELSE <<>>)
             \o SpacingCandidates(desired_size, spacing, multiplier + 1)

\* candidates after "candidates.append((desired_size, 0))"
CandidatesMutant(desired_size, spacing) ==
    SpacingCandidates(desired_size, spacing, 1)

Candidates(desired_size, spacing) ==
    SpacingCandidates(desired_size, spacing, 1) \o << <<desired_size, 0>> >>

\* [(size, score) for size, score in candidates if size <= total_frames]
ValidCandidatesMutant(candidates, total) ==
    SelectSeq(candidates, LAMBDA c : c[1] < total)

ValidCandidates(candidates, total) ==
    SelectSeq(candidates, LAMBDA c : c[1] <= total)

\* min(list, key=lambda x: x[1]): the first element of the least key, with
\* `best` the least so far and `i` the next index to look at.
RECURSIVE MinByScore(_, _, _)
MinByScore(list, best, i) ==
    IF i > Len(list) THEN best
    ELSE MinByScore(list, IF list[i][2] < best[2] THEN list[i] ELSE best, i + 1)

FindOptimalWindowSizeNoMinMutant(desired_size, spacing, total) ==
    LET valid_candidates == ValidCandidates(Candidates(desired_size, spacing), total)
    IN  IF valid_candidates # <<>>
           THEN MinByScore(valid_candidates, valid_candidates[1], 2)[1]
           ELSE desired_size

FindOptimalWindowSizeMutant(desired_size, spacing, total) ==
    LET valid_candidates == ValidCandidates(Candidates(desired_size, spacing), total)
    IN  IF valid_candidates # <<>>
           THEN MinByScore(valid_candidates, valid_candidates[1], 2)[1]
           ELSE Min(desired_size, total) - 1

FindOptimalWindowSize(desired_size, spacing, total) ==
    LET valid_candidates == ValidCandidates(Candidates(desired_size, spacing), total)
    IN  IF valid_candidates # <<>>
           THEN MinByScore(valid_candidates, valid_candidates[1], 2)[1]
           ELSE Min(desired_size, total)

\* The if force_alignment / else of calculate_optimal_alignment.
OptimalWindowSizeMutant(force_alignment, context_window_size, spacing, total) ==
    FindOptimalWindowSize(context_window_size, spacing, total)

OptimalWindowSize(force_alignment, context_window_size, spacing, total) ==
    IF force_alignment
       THEN FindOptimalWindowSize(context_window_size, spacing, total)
       ELSE context_window_size

\* ------------------------------------------- _calculate_window_boundaries
\* end = min(start + window_size, total_frames)
WindowEndShortMutant(from, window_size, total) ==
    Min(from + window_size - 1, total)

WindowEndMutant(from, window_size, total) == from + window_size

WindowEnd(from, window_size, total) == Min(from + window_size, total)

\* "if end >= total_frames: break"
LoopBreaksMutant(end, total) == end > total

LoopBreaks(end, total) == end >= total

\* start = end - overlap
NextStartSharedMutant(end, overlap) == end - args.overlap_frames

NextStartMutant(end, overlap) == end - overlap - 1

NextStartGapMutant(end, overlap) == end - overlap + 1

NextStart(end, overlap) == end - overlap

\* ---------------------------------------------- _assess_alignment_quality
\* The for loop over windows: alignment_score after the windows from index i.
RECURSIVE AlignmentScoreMutant(_, _, _)
AlignmentScoreMutant(wins, positions, i) ==
    IF i > Len(wins) THEN 0
    ELSE (IF In(wins[i][1], positions) THEN 1 ELSE 0)
         + (IF In(wins[i][2] - 1, positions) THEN 1 ELSE 0)
         + AlignmentScoreMutant(wins, positions, i + 1)

RECURSIVE AlignmentScore(_, _, _)
AlignmentScore(wins, positions, i) ==
    IF i > Len(wins) THEN 0
    ELSE (IF In(wins[i][1], positions) THEN 1 ELSE 0)
         + (IF In(wins[i][2], positions) THEN 1 ELSE 0)
         + AlignmentScore(wins, positions, i + 1)

\* total_boundaries = len(windows) * 2
TotalBoundariesMutant(wins) == Len(wins)

TotalBoundaries(wins) == Len(wins) * 2

\* The float returned, as the fraction num / den (0.0 is 0 / 1).
AssessAlignmentQuality(wins, positions) ==
    IF wins = <<>> \/ positions = <<>>
       THEN [num |-> 0, den |-> 1]
       ELSE [num |-> AlignmentScore(wins, positions, 1), den |-> TotalBoundaries(wins)]

\* --------------------------------------------- create_interpolation_masks
\* torch.ones(total_frames), then masks[pos] = 0.0 for the positions from
\* index i on that are < total_frames.
RECURSIVE SetKeyframes(_, _, _, _)
SetKeyframes(m, positions, total, i) ==
    IF i > Len(positions) THEN m
    ELSE SetKeyframes(IF positions[i] < total
                         THEN [m EXCEPT ![positions[i] + 1] = 0]
                         ELSE m,
                      positions, total, i + 1)

CreateInterpolationMasksInvertedMutant(total, positions) ==
    LET m == SetKeyframes([p \in 1..total |-> 1], positions, total, 1)
    IN  [p \in 1..total |-> 1 - m[p]]

CreateInterpolationMasksMutant(total, positions) ==
    SetKeyframes([p \in 1..total |-> 1], positions, total, 2)

CreateInterpolationMasks(total, positions) ==
    SetKeyframes([p \in 1..total |-> 1], positions, total, 1)

\* ============================================================ MasterBatcher
\* (MasterBatcher/master_batcher.py)  A string the node takes apart
\* (folder_paths, a line of it, a path) is a sequence of one-character
\* strings; a file name is never taken apart and stays a string.

\* ------------------------------------------------------- bounds (batcher)
\* Most lines in the folder_paths widget.
MaxLines == 2
\* Largest batch_size.
MaxBatchSize == 2

\* ------------------------------------------------------ program constants
\* INPUT_TYPES: batch_size "min": 1.
MinBatchSize == 1

IMAGE_EXTENSIONS == {".png", ".jpg", ".jpeg", ".bmp", ".tiff", ".tif", ".webp"}

SORT_METHODS == {"alphabetical", "alphabetical_reverse", "modified_newest",
                 "modified_oldest", "created_newest", "created_oldest", "random"}

\* ------------------------------------------------------------ str methods
\* The characters str.strip() removes.
Whitespace == {" ", "\t", "\n"}

RECURSIVE LStrip(_, _)
LStrip(s, chars) ==
    IF s # <<>> /\ s[1] \in chars THEN LStrip(Tail(s), chars) ELSE s

\* str.rstrip(chars)
RECURSIVE RStrip(_, _)
RStrip(s, chars) ==
    IF s # <<>> /\ s[Len(s)] \in chars
       THEN RStrip(SubSeq(s, 1, Len(s) - 1), chars)
       ELSE s

\* str.strip()
Strip(s) == RStrip(LStrip(s, Whitespace), Whitespace)

\* while c + c in s: s = s.replace(c + c, c)
RECURSIVE Squeeze(_, _)
Squeeze(s, c) ==
    IF Len(s) < 2 THEN s
    ELSE IF s[1] = c /\ s[2] = c
            THEN Squeeze(Tail(s), c)
            ELSE <<s[1]>> \o Squeeze(Tail(s), c)

\* s.replace(old, new) for single characters
Replace(s, old, new) == [i \in 1..Len(s) |-> IF s[i] = old THEN new ELSE s[i]]

\* s.split(sep)
RECURSIVE Split(_, _)
Split(s, sep) ==
    IF ~In(sep, s) THEN <<s>>
    ELSE LET i == CHOOSE k \in 1..Len(s) :
                      s[k] = sep /\ \A j \in 1..(k - 1) : s[j] # sep
         IN  <<SubSeq(s, 1, i - 1)>> \o Split(SubSeq(s, i + 1, Len(s)), sep)

\* sep.join(parts)
RECURSIVE Join(_, _)
Join(parts, sep) ==
    IF parts = <<>> THEN <<>>
    ELSE IF Len(parts) = 1 THEN parts[1]
         ELSE parts[1] \o <<sep>> \o Join(Tail(parts), sep)

\* ------------------------------------------------------------ sanitize_path
\* [A-Za-z], as far as the paths of the model use it.
Letters == {"a", "b", "c", "e", "C"}

\* forbidden_chars (without the backquote, which no string here can hold)
Forbidden == {"<", ">", "\"", "|", "?", "*", "!", "@", "#", "$", "%",
              "^", "&", "+", "=", "{", "}", "[", "]", ";", ",", "~"}

\* The characters with ord(char) <= 31.
Control == {"\t", "\n"}

\* path_str[1:-1] when the path is wrapped in a pair of quotes.
Unquote(path_str) ==
    IF path_str # <<>>
          /\ \/ path_str[1] = "\"" /\ path_str[Len(path_str)] = "\""
             \/ path_str[1] = "'" /\ path_str[Len(path_str)] = "'"
       THEN SubSeq(path_str, 2, Len(path_str) - 1)
       ELSE path_str

\* len(drive_match.group(0)) for drive_pattern ^([A-Za-z]):\\?, 0 for no match.
DriveMatch(path_str) ==
    IF Len(path_str) >= 2 /\ path_str[1] \in Letters /\ path_str[2] = ":"
       THEN IF Len(path_str) >= 3 /\ path_str[3] = "\\" THEN 3 ELSE 2
       ELSE 0

SanitizePath(line) ==
    LET path_str == Unquote(Strip(line))
        matched == DriveMatch(path_str)
        drive_prefix == IF matched > 0 THEN <<path_str[1], ":", "\\">> ELSE <<>>
        remaining_path == SubSeq(path_str, matched + 1, Len(path_str))
        printable == SelectSeq(remaining_path,
                               LAMBDA c : c \notin Forbidden /\ c \notin Control)
        spaced == Strip(Squeeze(printable, " "))
        slashed == Squeeze(Replace(spaced, "/", "\\"), "\\")
        path_parts == Split(slashed, "\\")
        stripped_parts == [i \in 1..Len(path_parts) |->
                              RStrip(path_parts[i], {".", " "})]
        cleaned_parts == SelectSeq(stripped_parts, LAMBDA part : part # <<>>)
        final_path == drive_prefix \o Join(cleaned_parts, "\\")
    IN  IF Strip(final_path) = <<>> THEN <<>> ELSE final_path

\* ------------------------------------------------------------ the folders
\* One entry of os.listdir: its name, ext = os.path.splitext(name)[1],
\* lower = the place of name.lower() in string order, whether it is a
\* regular file, its mtime and ctime, and whether Image.open reads it.
Entry(name, ext, lower, isfile, mtime, ctime, opens) ==
    [name |-> name, ext |-> ext, lower |-> lower, isfile |-> isfile,
     mtime |-> mtime, ctime |-> ctime, opens |-> opens]

\* A directory whose listing succeeds, entries in os.listdir order.
Directory(entries) == [listable |-> TRUE, entries |-> entries]

\* A directory on which os.listdir raises OSError.
Unlistable == [listable |-> FALSE, entries |-> <<>>]

DirA == <<"a">>
DirB == <<"b">>
DirE == <<"C", ":", "\\", "e">>

DiskOne ==
    (DirA :> Directory(<< Entry("x.png", ".png", 3, TRUE, 1, 3, TRUE),
                          Entry("B.PNG", ".PNG", 1, TRUE, 2, 2, TRUE),
                          Entry("c.webp", ".webp", 2, TRUE, 2, 1, TRUE),
                          Entry("notes.txt", ".txt", 4, TRUE, 3, 3, TRUE) >>))
    @@ (DirB :> Directory(<< Entry("x.png", ".png", 2, TRUE, 1, 1, TRUE),
                             Entry("sub.png", ".png", 1, FALSE, 2, 2, FALSE) >>))
    @@ (DirE :> Directory(<< Entry("notes.txt", ".txt", 1, TRUE, 1, 1, TRUE) >>))

DiskTwo ==
    (DirA :> Directory(<< Entry("x.png", ".png", 1, TRUE, 2, 1, TRUE),
                          Entry("y.jpg", ".jpg", 2, TRUE, 1, 2, FALSE) >>))
    @@ (DirB :> Directory(<< Entry("x.png", ".png", 1, TRUE, 1, 1, FALSE) >>))
    @@ (DirE :> Unlistable)

Disks == {DiskOne, DiskTwo}

\* The lines a user types into folder_paths.
FolderLines ==
    { DirA,
      <<" ", "b", "/", ".">>,
      <<"\"", "b", "+", "\"">>,
      <<"C", ":", "/", "e", " ">>,
      <<"c", "?">>,
      <<" ">> }

\* The values of the folder_paths widget: up to MaxLines lines, no line
\* typed twice.
FolderPathInputs ==
    { Join(lines, "\n") :
        lines \in { l \in UNION { [1..n -> FolderLines] : n \in 0..MaxLines } :
                       \A i, j \in 1..Len(l) : l[i] = l[j] => i = j } }

\* ---------------------------------------------------------- get_image_files
\* ext.lower()
Lower(ext) == IF ext = ".PNG" THEN ".png" ELSE ext

\* os.path.isdir(folder_path)
IsDir(d, folder_path) == folder_path \in DOMAIN d

\* image_files before sorting.
ImageFiles(d, folder_path) ==
    LET kept == SelectSeq(d[folder_path].entries,
                          LAMBDA e : Lower(e.ext) \in IMAGE_EXTENSIONS /\ e.isfile)
    IN  [i \in 1..Len(kept) |-> kept[i].name]

\* The entry os.path.join(folder_path, f) names.
Stat(d, folder_path, f) ==
    LET entries == d[folder_path].entries
    IN  entries[CHOOSE i \in 1..Len(entries) : entries[i].name = f]

\* key(f) of the sort sort_method asks for.
SortKey(d, folder_path, f, method) ==
    IF method \in {"alphabetical", "alphabetical_reverse"}
       THEN Stat(d, folder_path, f).lower
       ELSE IF method \in {"modified_newest", "modified_oldest"}
               THEN Stat(d, folder_path, f).mtime
               ELSE Stat(d, folder_path, f).ctime

\* reverse=True
Reversed(method) ==
    method \in {"alphabetical_reverse", "modified_newest", "created_newest"}

\* list.sort(key=..., reverse=...) is stable: f goes behind the elements
\* that do not come after it.
RECURSIVE InsertSorted(_, _, _, _)
InsertSorted(sorted, f, key, reverse) ==
    IF sorted = <<>> THEN <<f>>
    ELSE IF (IF reverse THEN key[Head(sorted)] >= key[f]
                        ELSE key[Head(sorted)] <= key[f])
            THEN <<Head(sorted)>> \o InsertSorted(Tail(sorted), f, key, reverse)
            ELSE <<f>> \o sorted

RECURSIVE ListSort(_, _, _)
ListSort(list, key, reverse) ==
    IF list = <<>> THEN <<>>
    ELSE InsertSorted(ListSort(SubSeq(list, 1, Len(list) - 1), key, reverse),
                      list[Len(list)], key, reverse)

\* The orders random.shuffle(list) can leave the list in.
Shuffles(list) ==
    IF list = <<>> THEN {<<>>}
    ELSE { [i \in 1..Len(list) |-> list[p[i]]] : p \in Permutations(1..Len(list)) }

\* The lists get_image_files can return.
GetImageFiles(d, folder_path, method) ==
    IF ~d[folder_path].listable THEN {<<>>}
    ELSE LET image_files == ImageFiles(d, folder_path)
             key == [f \in {image_files[i] : i \in 1..Len(image_files)} |->
                        SortKey(d, folder_path, f, method)]
         IN  IF method = "random"
                THEN Shuffles(image_files)
                ELSE {ListSort(image_files, key, Reversed(method))}

\* ---------------------------------------------------------- build_batch_map
\* math.ceil(len(image_files) / batch_size)
NumBatches(count, size) == (count + size - 1) \div size

\* The descriptors appended for one folder.
FolderBatches(folder_path, image_files, size) ==
    [i \in 1..NumBatches(Len(image_files), size) |->
        [folder_path |-> folder_path,
         files |-> SubSeq(image_files, (i - 1) * size + 1,
                          Min((i - 1) * size + size, Len(image_files)))]]

\* The batch maps the for loop over the lines from index i on can append.
RECURSIVE BatchMaps(_, _, _, _, _)
BatchMaps(d, lines, size, method, i) ==
    IF i > Len(lines) THEN {<<>>}
    ELSE LET folder_path == SanitizePath(lines[i])
             rest == BatchMaps(d, lines, size, method, i + 1)
         IN  IF folder_path = <<>> \/ ~IsDir(d, folder_path)
                THEN rest
                ELSE { FolderBatches(folder_path, image_files, size) \o r :
                          image_files \in GetImageFiles(d, folder_path, method),
                          r \in rest }

\* The batch maps build_batch_map can return.
BuildBatchMap(d, folder_paths_raw, size, method) ==
    BatchMaps(d, Split(Strip(folder_paths_raw), "\n"), size, method, 1)

\* The widgets as INPUT_TYPES defaults them, nothing run, no folder on disk.
BatcherIdle ==
    /\ disk = <<>>
    /\ folder_paths = <<>>
    /\ batch_size = MinBatchSize
    /\ sort_method = "alphabetical"
    /\ batch_index = 0
    /\ stage = "queued"
    /\ descriptor_read = FALSE
    /\ output = <<>>
    /\ batch_error = ""
    /\ runs = <<>>

\* ------------------------------------------------------------ the machine
NoArgs == [num_keyframes |-> 0, interpolation_multiplier |-> 0,
           context_window_size |-> 0, overlap_frames |-> 0,
           force_alignment |-> FALSE]

\* calculate_optimal_alignment takes no vae, keyframes or vace_strength.
NoOpaque == [vae |-> "", keyframes |-> "", vace_strength |-> 0]

\* The vae, the image content of the keyframes and vace_strength (in
\* tenths) that process hands to the encoder.
OpaqueInputs ==
    { [vae |-> "vae1", keyframes |-> "imagesA", vace_strength |-> 10],
      [vae |-> "vae1", keyframes |-> "imagesA", vace_strength |-> 20],
      [vae |-> "vae2", keyframes |-> "imagesB", vace_strength |-> 10] }

\* The frame of a thread that has not called process.
IdleFrame ==
    [pc |-> "idle", args |-> NoArgs, total_frames |-> 0,
     keyframe_positions |-> <<>>, optimal_window_size |-> 0, windows |-> <<>>,
     start |-> 0, schedule |-> <<>>, masks |-> <<>>, error |-> "",
     overlapped |-> FALSE]

\* The context manager before any call.
ManagerIdle ==
    /\ other = IdleFrame
    /\ pc = "idle"
    /\ entry = ""
    /\ args = NoArgs
    /\ opaque = NoOpaque
    /\ total_frames = 0
    /\ keyframe_positions = <<>>
    /\ optimal_window_size = 0
    /\ windows = <<>>
    /\ start = 0
    /\ schedule = <<>>
    /\ masks = <<>>
    /\ context_options = <<>>
    /\ encoder_calls = 0
    /\ warned = FALSE
    /\ error = ""
    /\ prev = <<>>

Init == ManagerIdle /\ BatcherIdle

\* A new call overwrites every variable, so the calls made after an earlier
\* call has returned or raised reach the states the first call reaches.
AtRest == pc = "idle"

\* The body of calculate_optimal_alignment up to the first iteration of the
\* partition loop.
EnterAlignmentKeepsWindowsMutant(a) ==
    LET total == TotalFrames(a.num_keyframes, a.interpolation_multiplier)
    IN  /\ total_frames' = total
        /\ keyframe_positions' =
               KeyframePositions(a.num_keyframes, a.interpolation_multiplier)
        /\ optimal_window_size' =
               OptimalWindowSize(a.force_alignment, a.context_window_size,
                                 a.interpolation_multiplier, total)
        /\ windows' = windows
        /\ start' = 0
        /\ pc' = "loop"
        /\ error' = ""

EnterAlignmentStrengthMutant(a) ==
    LET total == TotalFrames(a.num_keyframes, a.interpolation_multiplier)
    IN  /\ total_frames' = total
        /\ keyframe_positions' =
               KeyframePositions(a.num_keyframes, a.interpolation_multiplier)
        /\ optimal_window_size' =
               OptimalWindowSize(a.force_alignment,
                                 (a.context_window_size * opaque'.vace_strength) \div 10,
                                 a.interpolation_multiplier, total)
        /\ windows' = <<>>
        /\ start' = 0
        /\ pc' = "loop"
        /\ error' = ""

EnterAlignment(a) ==
    LET total == TotalFrames(a.num_keyframes, a.interpolation_multiplier)
    IN  /\ total_frames' = total
        /\ keyframe_positions' =
               KeyframePositions(a.num_keyframes, a.interpolation_multiplier)
        /\ optimal_window_size' =
               OptimalWindowSize(a.force_alignment, a.context_window_size,
                                 a.interpolation_multiplier, total)
        /\ windows' = <<>>
        /\ start' = 0
        /\ pc' = "loop"
        /\ error' = ""

\* A call that raises before any computation.
Raise(message) ==
    /\ pc' = "raised"
    /\ error' = message
    /\ total_frames' = 0
    /\ keyframe_positions' = <<>>
    /\ optimal_window_size' = 0
    /\ windows' = <<>>
    /\ start' = 0

\* What every new call starts from.
NewCallMutant(method, a) ==
    /\ entry' = method
    /\ args' = a
    /\ schedule' = <<>>
    /\ masks' = <<>>
    /\ context_options' = <<>>
    /\ encoder_calls' = 1
    /\ warned' = FALSE

NewCall(method, a) ==
    /\ entry' = method
    /\ args' = a
    /\ schedule' = <<>>
    /\ masks' = <<>>
    /\ context_options' = <<>>
    /\ encoder_calls' = 0
    /\ warned' = FALSE

\* process(...): validation, then calculate_optimal_alignment.
ProcessCallMutant(a) ==
    /\ NewCall("process", a)
    /\ IF a.num_keyframes < MinKeyframes
          THEN Raise("ValueError: Need at least 2 keyframes for interpolation")
          ELSE EnterAlignment(a)

ProcessCall(a) ==
    /\ NewCall("process", a)
    /\ IF a.num_keyframes < MinKeyframes
          THEN Raise("ValueError: Need at least 2 keyframes for interpolation")
          ELSE IF a.interpolation_multiplier < MinMultiplier
                  THEN Raise("ValueError: Minimum interpolation multiplier is 6x")
                  ELSE EnterAlignment(a)

\* calculate_optimal_alignment(...) called on its own.
AlignmentCallMutant(a) ==
    /\ NewCall("calculate_optimal_alignment", a)
    /\ IF a.num_keyframes < MinKeyframes
          THEN Raise("ValueError: Need at least 2 keyframes for interpolation")
          ELSE EnterAlignment(a)

AlignmentCall(a) ==
    /\ NewCall("calculate_optimal_alignment", a)
    /\ EnterAlignment(a)

CallArgs ==
    [num_keyframes : KeyframeCounts, interpolation_multiplier : Multipliers,
     context_window_size : WindowSizes, overlap_frames : Overlaps,
     force_alignment : BOOLEAN]

Process ==
    /\ AtRest
    /\ opaque' \in OpaqueInputs
    /\ \E a \in CallArgs : ProcessCall(a)
    /\ prev' = <<>>
    /\ UNCHANGED <<other, batcher>>

CalculateOptimalAlignment ==
    /\ AtRest
    /\ opaque' = NoOpaque
    /\ \E a \in CallArgs : AlignmentCall(a)
    /\ prev' = <<>>
    /\ UNCHANGED <<other, batcher>>

\* The caller keeps the results it got (or those of an earlier call it
\* still holds) and calls the same method again with the same arguments,
\* force_alignment and the encoder's inputs chosen anew.
CallAgain ==
    /\ pc = "returned"
    /\ prev' \in { << [args |-> args, opaque |-> opaque,
                       schedule |-> schedule[1], masks |-> masks] >> }
                 \cup (IF prev # <<>> THEN {prev} ELSE {})
    /\ opaque' \in (IF entry = "process" THEN OpaqueInputs ELSE {NoOpaque})
    /\ \E fa \in BOOLEAN :
          LET a == [args EXCEPT !.force_alignment = fa]
          IN  IF entry = "process" THEN ProcessCall(a) ELSE AlignmentCall(a)
    /\ UNCHANGED <<other, batcher>>

\* One iteration of "while start < total_frames".
LoopIter ==
    /\ pc = "loop"
    /\ start < total_frames
    /\ Len(windows) < MaxIterations
    /\ LET end == WindowEnd(start, optimal_window_size, total_frames)
       IN  /\ windows' = Append(windows, <<start, end>>)
           /\ IF LoopBreaks(end, total_frames)
                 THEN /\ pc' = "assess"
                      /\ start' = start
                 ELSE /\ pc' = "loop"
                      /\ start' = NextStart(end, args.overlap_frames)
    /\ UNCHANGED <<entry, args, opaque, total_frames, keyframe_positions,
                   optimal_window_size, schedule, masks, context_options,
                   encoder_calls, warned, error, prev, other, batcher>>

\* The while condition is false: the loop ends without a break.
LoopExit ==
    /\ pc = "loop"
    /\ ~(start < total_frames)
    /\ pc' = "assess"
    /\ UNCHANGED <<entry, args, opaque, total_frames, keyframe_positions,
                   optimal_window_size, windows, start, schedule, masks,
                   context_options, encoder_calls, warned, error, prev, other, batcher>>

\* The return of calculate_optimal_alignment and, in process, everything
\* after it: masks, the encoder call, context_options, the warning.
Returns ==
    /\ pc = "assess"
    /\ LET quality == AssessAlignmentQuality(windows, keyframe_positions)
           result == [total_frames |-> total_frames,
                      keyframe_positions |-> keyframe_positions,
                      interpolation_multiplier |-> args.interpolation_multiplier,
                      optimal_window_size |-> optimal_window_size,
                      windows |-> windows,
                      alignment_quality |-> quality]
           m == CreateInterpolationMasks(total_frames, keyframe_positions)
       IN  /\ schedule' = <<result>>
           /\ IF entry = "process"
                 THEN /\ masks' = m
                      /\ encoder_calls' = encoder_calls + 1
                      /\ context_options' =
                            << [context_schedule |-> windows,
                                window_size |-> optimal_window_size,
                                overlap_frames |-> args.overlap_frames,
                                processing_mode |-> "keyframe_aligned",
                                total_frames |-> total_frames,
                                keyframe_positions |-> keyframe_positions,
                                interpolation_multiplier |-> args.interpolation_multiplier,
                                alignment_quality |-> quality,
                                masks |-> m] >>
                      /\ warned' = (quality.num * 2 < quality.den)
                 ELSE UNCHANGED <<masks, encoder_calls, context_options, warned>>
    /\ pc' = "returned"
    /\ UNCHANGED <<entry, args, opaque, total_frames, keyframe_positions,
                   optimal_window_size, windows, start, error, prev, other, batcher>>

\* The step process and calculate_optimal_alignment end with.
ReturnRejectsPoorMutant ==
    IF pc = "assess"
          /\ AssessAlignmentQuality(windows, keyframe_positions).num * 2
                 < AssessAlignmentQuality(windows, keyframe_positions).den
       THEN /\ pc' = "raised"
            /\ error' = "ValueError: Poor keyframe alignment"
            /\ UNCHANGED <<entry, args, opaque, total_frames, keyframe_positions,
                           optimal_window_size, windows, start, schedule, masks,
                           context_options, encoder_calls, warned, prev, other, batcher>>
       ELSE Returns

Return == Returns

Next ==
    \/ Process
    \/ CalculateOptimalAlignment
    \/ CallAgain
    \/ LoopIter
    \/ LoopExit
    \/ Return

Spec == Init /\ [][Next]_vars

\* The interpreter runs the loop and the statements after it without
\* stopping in between.
FairSpec == Spec /\ WF_vars(LoopIter) /\ WF_vars(LoopExit) /\ WF_vars(Return)

\* ------------------------------------------------- two calls at a time
\* process keeps everything it computes in local variables, so a second
\* thread runs the same statements on a frame of its own.
ConcArgs ==
    [num_keyframes : {1, 2, 3}, interpolation_multiplier : {MinMultiplier},
     context_window_size : {3, 4}, overlap_frames : {1, 2},
     force_alignment : BOOLEAN]

\* The first thread is inside a call.
Busy == pc \in {"loop", "assess"}

\* process(...) in the first thread, while the second may be running.
ConcProcess ==
    /\ AtRest
    /\ opaque' = CHOOSE o \in OpaqueInputs : o.vace_strength = 10 /\ o.vae = "vae1"
    /\ \E a \in ConcArgs : ProcessCall(a)
    /\ prev' = <<>>
    /\ UNCHANGED <<other, batcher>>

\* The frame of the second thread after the validation of process and the
\* body of calculate_optimal_alignment up to the partition loop.
FrameCall(a) ==
    IF a.num_keyframes < MinKeyframes
       THEN [IdleFrame EXCEPT !.pc = "raised", !.args = a,
                !.error = "ValueError: Need at least 2 keyframes for interpolation"]
       ELSE IF a.interpolation_multiplier < MinMultiplier
               THEN [IdleFrame EXCEPT !.pc = "raised", !.args = a,
                        !.error = "ValueError: Minimum interpolation multiplier is 6x"]
               ELSE LET total == TotalFrames(a.num_keyframes, a.interpolation_multiplier)
                    IN  [IdleFrame EXCEPT
                            !.pc = "loop",
                            !.args = a,
                            !.total_frames = total,
                            !.keyframe_positions =
                                KeyframePositions(a.num_keyframes,
                                                  a.interpolation_multiplier),
                            !.optimal_window_size =
                                OptimalWindowSize(a.force_alignment,
                                                  a.context_window_size,
                                                  a.interpolation_multiplier, total)]

\* process(...) in the second thread.
OtherProcess ==
    /\ other.pc = "idle"
    /\ \E a \in ConcArgs : other' = [FrameCall(a) EXCEPT !.overlapped = Busy]
    /\ UNCHANGED <<first, batcher>>

\* The while loop in the second thread: one iteration, or its end when the
\* condition is false.
OtherLoopStep ==
    /\ other.pc = "loop"
    /\ Len(other.windows) < MaxIterations
    /\ IF other.start < other.total_frames
          THEN LET end == WindowEnd(other.start, other.optimal_window_size,
                                    other.total_frames)
                   breaks == LoopBreaks(end, other.total_frames)
               IN  other' = [other EXCEPT
                       !.windows = Append(@, <<other.start, end>>),
                       !.pc = IF breaks THEN "assess" ELSE "loop",
                       !.start = IF breaks THEN @
                                 ELSE NextStart(end, other.args.overlap_frames),
                       !.overlapped = @ \/ Busy]
          ELSE other' = [other EXCEPT !.pc = "assess"]
    /\ UNCHANGED <<first, batcher>>

\* The rest of process in the second thread.
OtherReturn ==
    /\ other.pc = "assess"
    /\ other' = [other EXCEPT
           !.pc = "returned",
           !.schedule =
               << [total_frames |-> other.total_frames,
                   keyframe_positions |-> other.keyframe_positions,
                   interpolation_multiplier |-> other.args.interpolation_multiplier,
                   optimal_window_size |-> other.optimal_window_size,
                   windows |-> other.windows,
                   alignment_quality |->
                       AssessAlignmentQuality(other.windows,
                                              other.keyframe_positions)] >>,
           !.masks = CreateInterpolationMasks(other.total_frames,
                                              other.keyframe_positions),
           !.overlapped = @ \/ Busy]
    /\ UNCHANGED <<first, batcher>>

\* In process the while condition holds whenever it is tested
\* (total_frames >= 7, and start < total_frames after an iteration that
\* does not break), so LoopExit has no part here.
ConcNext ==
    \/ ConcProcess
    \/ LoopIter
    \/ Return
    \/ OtherProcess
    \/ OtherLoopStep
    \/ OtherReturn

ConcSpec == Init /\ [][ConcNext]_vars

\* ------------------------------------------------------------- load_batch
\* "if batch_index >= total_batches or total_batches == 0"
ExhaustedMutant(index, total_batches) ==
    index > total_batches \/ total_batches = 0

Exhausted(index, total_batches) ==
    index >= total_batches \/ total_batches = 0

\* The status strings of the exhausted or empty case.
Done == <<"D", "O", "N", "E">>

Empty == <<"E", "M", "P", "T", "Y">>

\* filepath = os.path.join(current_folder, filename) for the filenames of
\* a descriptor.
FilePaths(descriptor) ==
    [i \in 1..Len(descriptor.files) |->
        <<descriptor.folder_path, descriptor.files[i]>>]

\* images: the files of the descriptor Image.open reads, the others are
\* skipped with a warning.
Images(d, descriptor) ==
    SelectSeq(FilePaths(descriptor), LAMBDA fp : Stat(d, fp[1], fp[2]).opens)

\* The dict load_batch returns for the batch map bm.  A batch of which no
\* file loads returns like any other, with batch_count 0.
LoadBatchOutput(d, bm, index) ==
    LET total_batches == Len(bm)
    IN  IF Exhausted(index, total_batches)
           THEN [ui |-> [batch_count |-> 0,
                         folder_path |-> IF total_batches > 0 THEN Done ELSE Empty,
                         total_batches |-> total_batches,
                         batch_index |-> index],
                 result |-> [images |-> <<>>, batch_count |-> 0,
                             folder_path |-> <<>>,
                             total_batches |-> total_batches]]
           ELSE LET descriptor == bm[index + 1]
                    current_folder == descriptor.folder_path
                    images == Images(d, descriptor)
                IN  [ui |-> [batch_count |-> Len(images),
                             folder_path |-> current_folder,
                             total_batches |-> total_batches,
                             batch_index |-> index],
                     result |-> [images |-> images, batch_count |-> Len(images),
                                 folder_path |-> current_folder,
                                 total_batches |-> total_batches]]

\* The largest listing of a directory on any disk.
MostEntries ==
    LET counts == { Len(d[p].entries) : d \in Disks, p \in {DirA, DirB, DirE} }
    IN  CHOOSE n \in counts : \A m \in counts : m <= n

\* One more than the batches a folder_paths value can map to.
MaxBatchIndex == MaxLines * MostEntries + 1

\* One execution of the node: load_batch runs on the values of the widgets.
LoadBatch ==
    /\ stage = "queued"
    /\ \E bm \in BuildBatchMap(disk, folder_paths, batch_size, sort_method) :
          LET total_batches == Len(bm)
              reads == ~Exhausted(batch_index, total_batches)
          IN  /\ descriptor_read' = reads
              /\ IF reads /\ batch_index >= total_batches
                    THEN /\ batch_error' = "IndexError: list index out of range"
                         /\ output' = <<>>
                         /\ runs' = runs
                    ELSE /\ batch_error' = ""
                         /\ output' = <<LoadBatchOutput(disk, bm, batch_index)>>
                         /\ runs' = Append(runs,
                               [batch_index |-> batch_index,
                                files |-> IF reads
                                             THEN FilePaths(bm[batch_index + 1])
                                             ELSE <<>>,
                                folder_path |-> output'[1].result.folder_path])
    /\ stage' = "ran"
    /\ UNCHANGED <<disk, folder_paths, batch_size, sort_method, batch_index,
                   first, other>>

\* "control_after_generate": "increment": after a run the front end adds 1
\* to batch_index and the node is queued again.
Increment ==
    /\ stage = "ran"
    /\ batch_error = ""
    /\ batch_index < MaxBatchIndex
    /\ batch_index' = batch_index + 1
    /\ stage' = "queued"
    /\ UNCHANGED <<disk, folder_paths, batch_size, sort_method,
                   descriptor_read, output, batch_error, runs, first, other>>

\* The user has filled in the widgets; the folders are on disk.
BatcherInit ==
    /\ ManagerIdle
    /\ disk \in Disks
    /\ folder_paths \in FolderPathInputs
    /\ batch_size \in MinBatchSize..MaxBatchSize
    /\ sort_method \in SORT_METHODS
    /\ batch_index = 0
    /\ stage = "queued"
    /\ descriptor_read = FALSE
    /\ output = <<>>
    /\ batch_error = ""
    /\ runs = <<>>

BatcherNext ==
    \/ LoadBatch
    \/ Increment

BatcherSpec == BatcherInit /\ [][BatcherNext]_vars

\* --------------------------------------- the ranges the node declares
\* INPUT_TYPES: interpolation_multiplier "max": 16.
UiMaxMultiplier == 16
\* INPUT_TYPES: context_window_size "min": 16.
UiMinWindowSize == 16
\* INPUT_TYPES: context_window_size "max": 128.
UiMaxWindowSize == 128
\* INPUT_TYPES: overlap_frames "min": 1.
UiMinOverlap == 1
\* INPUT_TYPES: overlap_frames "max": 8.
UiMaxOverlap == 8

\* The arguments the widgets of the node can hold, for two keyframes or more.
UiArgs ==
    [num_keyframes : MinKeyframes..MaxKeyframes,
     interpolation_multiplier : MinMultiplier..UiMaxMultiplier,
     context_window_size : UiMinWindowSize..UiMaxWindowSize,
     overlap_frames : UiMinOverlap..UiMaxOverlap,
     force_alignment : BOOLEAN]

\* process(...) as the node graph calls it.
UiProcess ==
    /\ AtRest
    /\ opaque' = CHOOSE o \in OpaqueInputs : o.vace_strength = 10 /\ o.vae = "vae1"
    /\ \E a \in UiArgs : ProcessCall(a)
    /\ prev' = <<>>
    /\ UNCHANGED <<other, batcher>>

\* As in ConcNext, the while condition holds whenever process tests it.
UiNext ==
    \/ UiProcess
    \/ LoopIter
    \/ Return

UiSpec == Init /\ [][UiNext]_vars

\* The interpreter runs the loop and the statements after it without
\* stopping in between.
UiFairSpec == UiSpec /\ WF_vars(LoopIter) /\ WF_vars(Return)

\* ----------------------------------------------------------- the claims
\* The call in progress has entered calculate_optimal_alignment.
InAlignment == pc \in {"loop", "assess", "returned"}

\* The partition loop of the call has ended.
PartitionDone == pc \in {"assess", "returned"}

\* The inputs process accepts.
ValidInputs ==
    /\ args.num_keyframes >= MinKeyframes
    /\ args.interpolation_multiplier >= MinMultiplier

\* The overlap leaves the partition room to advance.
ForwardProgress ==
    /\ optimal_window_size >= 1
    /\ 0 <= args.overlap_frames
    /\ args.overlap_frames < optimal_window_size

LastWindow == windows[Len(windows)]

\* C1 (coverage): for anchor_count >= 2, spacing >= 6, window size >= 1 and
\* 0 <= overlap < window size, the finished partition covers
\* [0, total_frames) exactly: the first window starts at 0, the last ends at
\* total_frames, every frame lies in some window, no window starts after
\* the end of the one before it, and no window holds a frame outside
\* [0, total_frames).
C1_Coverage ==
    (PartitionDone /\ ValidInputs /\ ForwardProgress) =>
        /\ windows # <<>>
        /\ windows[1][1] = 0
        /\ LastWindow[2] = total_frames
        /\ \A p \in 0..(total_frames - 1) :
              \E i \in 1..Len(windows) : windows[i][1] <= p /\ p < windows[i][2]
        /\ \A i \in 2..Len(windows) : windows[i][1] <= windows[i - 1][2]
        /\ \A i \in 1..Len(windows) :
              windows[i][1] >= 0 /\ windows[i][2] <= total_frames

\* A finished partition of valid inputs with three windows or more that
\* overlap.
C1_Witness ==
    /\ PartitionDone /\ ValidInputs /\ ForwardProgress
    /\ Len(windows) >= 3
    /\ args.overlap_frames >= 1

\* C3 (overlap exactness): every window emitted after another starts exactly
\* `overlap` frames before the end of the one before it; this holds of every
\* consecutive pair, the final pair (which the claim leaves open) included.
C3_OverlapExact ==
    \A i \in 1..(Len(windows) - 1) :
        windows[i][2] - windows[i + 1][1] = args.overlap_frames

\* A finished partition with three windows or more and a short last window.
C3_Witness ==
    /\ PartitionDone
    /\ Len(windows) >= 3
    /\ args.overlap_frames >= 1
    /\ LastWindow[2] - LastWindow[1] < optimal_window_size

\* C7: with force_alignment false the effective window size, in the call and
\* in the schedule returned, is the desired size unmodified, also when it
\* exceeds total_frames, and no window ends past total_frames.
C7_UnforcedSize ==
    (InAlignment /\ ~args.force_alignment) =>
        /\ optimal_window_size = args.context_window_size
        /\ schedule # <<>> =>
              schedule[1].optimal_window_size = args.context_window_size
        /\ \A i \in 1..Len(windows) : windows[i][2] <= total_frames

\* A call without force_alignment has returned a schedule for a desired size
\* larger than the timeline.
C7_Witness ==
    /\ pc = "returned"
    /\ ~args.force_alignment
    /\ args.context_window_size > total_frames
    /\ total_frames >= 1

\* C8 (timeline): for N >= 2 keyframes and spacing m >= 6, total_frames is
\* (N - 1) * m + 1 and the anchor positions are the N values i * m,
\* strictly increasing from 0 to total_frames - 1; N = 4, m = 8 gives 25 and
\* [0, 8, 16, 24].
C8_Timeline ==
    (InAlignment /\ ValidInputs) =>
        LET N == args.num_keyframes
            m == args.interpolation_multiplier
        IN  /\ total_frames = (N - 1) * m + 1
            /\ total_frames >= 1
            /\ Len(keyframe_positions) = N
            /\ \A i \in 0..(N - 1) : keyframe_positions[i + 1] = i * m
            /\ \A i \in 1..(N - 1) : keyframe_positions[i] < keyframe_positions[i + 1]
            /\ keyframe_positions[1] = 0
            /\ keyframe_positions[N] = total_frames - 1
            /\ (N = 4 /\ m = 8) =>
                  total_frames = 25 /\ keyframe_positions = <<0, 8, 16, 24>>

\* The timeline of four keyframes spaced 8 apart has been computed.
C8_Witness ==
    /\ InAlignment
    /\ args.num_keyframes = 4
    /\ args.interpolation_multiplier = 8

\* C9: the windows emitted so far are the sequence start_0 = 0,
\* end_i = min(start_i + window_size, total_frames),
\* start_(i+1) = end_i - overlap, which stops after the first window that
\* ends at total_frames; total_frames = 25, window_size = 24, overlap = 2
\* gives [(0, 24), (22, 25)].
C9_PartitionSequence ==
    (InAlignment /\ total_frames >= 1) =>
        /\ windows # <<>> => windows[1][1] = 0
        /\ \A i \in 1..Len(windows) :
              windows[i][2] = Min(windows[i][1] + optimal_window_size, total_frames)
        /\ \A i \in 1..(Len(windows) - 1) :
              /\ windows[i + 1][1] = windows[i][2] - args.overlap_frames
              /\ windows[i][2] # total_frames
        /\ PartitionDone <=> (windows # <<>> /\ LastWindow[2] = total_frames)
        /\ (PartitionDone /\ total_frames = 25 /\ optimal_window_size = 24
                /\ args.overlap_frames = 2) =>
              windows = << <<0, 24>>, <<22, 25>> >>

\* The partition of 25 frames into windows of 24 with overlap 2 has ended.
C9_Witness ==
    /\ PartitionDone
    /\ total_frames = 25
    /\ optimal_window_size = 24
    /\ args.overlap_frames = 2

\* C2 (degenerate rejection): with overlap >= the effective window size,
\* once an iteration has left start where it was or before it, the call has
\* failed with DegenerateConfiguration instead of going on to the next
\* iteration.
C2_DegenerateRejected ==
    (pc = "loop" /\ windows # <<>> /\ start <= LastWindow[1]
        /\ optimal_window_size >= 1
        /\ args.overlap_frames >= optimal_window_size) =>
        error = "DegenerateConfiguration"

\* C4 (termination): while overlap < window size every iteration that goes
\* on to another one moves start strictly forward, and the loop of a
\* timeline (total_frames >= 1) ends having emitted a window whose end is
\* total_frames.
C4_Termination ==
    /\ [][(pc = "loop" /\ pc' = "loop" /\ windows' # windows
              /\ args.overlap_frames < optimal_window_size) => start' > start]_vars
    /\ (pc = "loop" /\ total_frames >= 1
            /\ args.overlap_frames < optimal_window_size)
           ~> (PartitionDone /\ windows # <<>> /\ LastWindow[2] = total_frames)

\* A loop with overlap < window size has ended after three iterations or
\* more.
C4_Witness ==
    /\ PartitionDone
    /\ args.overlap_frames >= 1
    /\ args.overlap_frames < optimal_window_size
    /\ Len(windows) >= 3

\* The k for which spacing * k is a candidate, and the i-th of them.
RefMultipliers(spacing) ==
    {k \in 1..(MultiplierStop - 1) : spacing * k >= MinCandidate}

RefMultiplier(spacing, i) ==
    CHOOSE k \in RefMultipliers(spacing) :
        Cardinality({j \in RefMultipliers(spacing) : j < k}) = i - 1

\* The candidates in the order they are generated.
RefGenerated(desired_size, spacing) ==
    LET n == Cardinality(RefMultipliers(spacing))
    IN  [i \in 1..(n + 1) |->
            IF i <= n THEN spacing * RefMultiplier(spacing, i) ELSE desired_size]

\* C5 (window-size search): with force_alignment the size chosen is, among
\* the candidates spacing * k (k = 1..9, value >= 16, in increasing k)
\* followed by desired_size that do not exceed total_frames, the one
\* nearest to desired_size, the earliest generated on a tie, and
\* min(desired_size, total_frames) when none survives; desired_size = 32,
\* spacing = 8, total_frames = 25 gives 24.
C5_WindowSizeSearch ==
    (InAlignment /\ args.force_alignment) =>
        LET d == args.context_window_size
            s == args.interpolation_multiplier
            gen == RefGenerated(d, s)
            surv == {i \in DOMAIN gen : gen[i] <= total_frames}
            dist(i) == Abs(gen[i] - d)
        IN  /\ IF surv = {}
                  THEN optimal_window_size = Min(d, total_frames)
                  ELSE \E j \in surv :
                          /\ optimal_window_size = gen[j]
                          /\ \A i \in surv :
                                dist(j) < dist(i) \/ (dist(j) = dist(i) /\ j <= i)
            /\ (d = 32 /\ s = 8 /\ total_frames = 25) => optimal_window_size = 24

\* The search has run for desired_size 32, spacing 8 and 25 frames.
C5_Witness ==
    /\ InAlignment
    /\ args.force_alignment
    /\ args.context_window_size = 32
    /\ args.interpolation_multiplier = 8
    /\ total_frames = 25

\* C6: with force_alignment and desired_size <= total_frames the search
\* returns desired_size itself, and the schedule the call returns is the one
\* the same call returns without force_alignment.
C6_DesiredOverridesAlignment ==
    /\ (InAlignment /\ args.force_alignment
            /\ args.context_window_size <= total_frames) =>
          optimal_window_size = args.context_window_size
    /\ (pc = "returned" /\ prev # <<>>
            /\ prev[1].args.force_alignment # args.force_alignment
            /\ args.context_window_size <= total_frames) =>
          schedule[1] = prev[1].schedule

\* The same call has returned with and without force_alignment, for a
\* desired size that fits the timeline, is no multiple of the spacing and
\* needs two windows or more.
C6_Witness ==
    /\ pc = "returned"
    /\ prev # <<>>
    /\ prev[1].args.force_alignment # args.force_alignment
    /\ args.context_window_size <= total_frames
    /\ args.context_window_size % args.interpolation_multiplier # 0
    /\ args.context_window_size >= MinCandidate
    /\ Len(windows) >= 2

\* C10 (quality): the quality returned is (windows whose start is an anchor
\* position + windows whose end is one) / (2 * window count) for a schedule
\* of one window or more, and lies in [0, 1] for every schedule.
C10_Quality ==
    schedule # <<>> =>
        LET q == schedule[1].alignment_quality
            wins == schedule[1].windows
            positions == {schedule[1].keyframe_positions[k] :
                              k \in DOMAIN schedule[1].keyframe_positions}
            starts == {i \in 1..Len(wins) : wins[i][1] \in positions}
            ends == {i \in 1..Len(wins) : wins[i][2] \in positions}
        IN  /\ wins # <<>> =>
                  /\ q.num = Cardinality(starts) + Cardinality(ends)
                  /\ q.den = 2 * Len(wins)
            /\ q.den > 0
            /\ 0 <= q.num
            /\ q.num <= q.den

\* A schedule of two windows or more, some boundaries on anchors and some
\* not, has been returned.
C10_Witness ==
    /\ schedule # <<>>
    /\ Len(schedule[1].windows) >= 2
    /\ schedule[1].alignment_quality.num >= 2
    /\ schedule[1].alignment_quality.num < schedule[1].alignment_quality.den

\* C11: for 2 keyframes spaced 8 apart (9 frames), window size 9 and
\* overlap 0 the schedule is the single window (0, 9), both of its
\* boundaries are anchor positions and the quality is 1.0.
C11_SingleWindowQuality ==
    (pc = "returned" /\ args.num_keyframes = 2
        /\ args.interpolation_multiplier = 8
        /\ optimal_window_size = 9 /\ args.overlap_frames = 0) =>
        /\ schedule[1].windows = << <<0, 9>> >>
        /\ In(0, schedule[1].keyframe_positions)
        /\ In(9, schedule[1].keyframe_positions)
        /\ schedule[1].alignment_quality.num = schedule[1].alignment_quality.den

\* C12 (mask correctness): the mask process builds has total_frames entries,
\* the entry of frame p marks a keyframe (0.0) exactly when p is a keyframe
\* position and an interpolated frame (1.0) otherwise, so num_keyframes
\* entries mark keyframes; 9 frames with keyframes [0, 8] give
\* [keyframe, 7 x interpolated, keyframe].
C12_MaskCorrect ==
    (pc = "returned" /\ entry = "process") =>
        LET positions == {keyframe_positions[k] : k \in DOMAIN keyframe_positions}
        IN  /\ Len(masks) = total_frames
            /\ \A p \in 0..(total_frames - 1) :
                  /\ masks[p + 1] \in {0, 1}
                  /\ masks[p + 1] = 0 <=> p \in positions
            /\ Cardinality({p \in 0..(total_frames - 1) : masks[p + 1] = 0})
                  = args.num_keyframes
            /\ context_options[1].masks = masks
            /\ (total_frames = 9 /\ keyframe_positions = <<0, 8>>) =>
                  masks = <<0, 1, 1, 1, 1, 1, 1, 1, 0>>

\* process has returned the mask of 9 frames with keyframes at 0 and 8.
C12_Witness ==
    /\ pc = "returned"
    /\ entry = "process"
    /\ total_frames = 9
    /\ keyframe_positions = <<0, 8>>

\* C13 (validation at the entry point): a process call with fewer than 2
\* keyframes or a multiplier below 6 raises ValueError, and no timeline,
\* window, schedule, mask or context record is computed for it, nor is the
\* encoder called.
C13_ProcessRejects ==
    (entry = "process"
        /\ (args.num_keyframes < MinKeyframes
               \/ args.interpolation_multiplier < MinMultiplier)) =>
        /\ pc = "raised"
        /\ error \in {"ValueError: Need at least 2 keyframes for interpolation",
                      "ValueError: Minimum interpolation multiplier is 6x"}
        /\ total_frames = 0
        /\ keyframe_positions = <<>>
        /\ windows = <<>>
        /\ schedule = <<>>
        /\ masks = <<>>
        /\ context_options = <<>>
        /\ encoder_calls = 0

\* process has rejected a call with enough keyframes and a multiplier
\* below 6.
C13_Witness ==
    /\ pc = "raised"
    /\ entry = "process"
    /\ args.num_keyframes >= MinKeyframes
    /\ args.interpolation_multiplier < MinMultiplier

\* C14 (as stated): calculate_optimal_alignment called with fewer than 2
\* keyframes or a multiplier below 6 never returns a total_frames /
\* keyframe_positions result.
C14_AlignmentRejects ==
    (entry = "calculate_optimal_alignment"
        /\ (args.num_keyframes < MinKeyframes
               \/ args.interpolation_multiplier < MinMultiplier)) =>
        /\ pc # "returned"
        /\ schedule = <<>>

\* C14 (amended): calculate_optimal_alignment validates nothing: called with
\* fewer than 2 keyframes or a multiplier below 6 it raises no error,
\* computes total_frames = (N - 1) * m + 1 and the N positions i * m, and
\* returns them once the partition loop has ended; such inputs are rejected
\* by process alone.
C14_AlignmentComputesAnyway ==
    (entry = "calculate_optimal_alignment"
        /\ (args.num_keyframes < MinKeyframes
               \/ args.interpolation_multiplier < MinMultiplier)) =>
        LET N == args.num_keyframes
            m == args.interpolation_multiplier
        IN  /\ pc # "raised"
            /\ error = ""
            /\ total_frames = (N - 1) * m + 1
            /\ Len(keyframe_positions) = N
            /\ \A i \in 0..(N - 1) : keyframe_positions[i + 1] = i * m
            /\ pc = "assess" => ENABLED Return
            /\ pc = "returned" =>
                  /\ schedule[1].total_frames = total_frames
                  /\ schedule[1].keyframe_positions = keyframe_positions

\* calculate_optimal_alignment has returned a schedule for one keyframe.
C14_Witness ==
    /\ pc = "returned"
    /\ entry = "calculate_optimal_alignment"
    /\ args.num_keyframes = 1
    /\ schedule # <<>>

\* C17 (well-formed windows): for valid inputs and a window size >= 1,
\* every window emitted has 0 <= start < end <= total_frames, and each
\* window starts after the one emitted before it.
C17_WellFormed ==
    (ValidInputs /\ optimal_window_size >= 1) =>
        /\ \A i \in 1..Len(windows) :
              /\ 0 <= windows[i][1]
              /\ windows[i][1] < windows[i][2]
              /\ windows[i][2] <= total_frames
        /\ \A i \in 1..(Len(windows) - 1) : windows[i][1] < windows[i + 1][1]

\* C18: with force_alignment every start and every end of the windows of
\* the schedule returned is a keyframe position.
C18_BoundariesOnKeyframes ==
    (pc = "returned" /\ entry = "process" /\ args.force_alignment) =>
        \A i \in 1..Len(schedule[1].windows) :
            /\ In(schedule[1].windows[i][1], schedule[1].keyframe_positions)
            /\ In(schedule[1].windows[i][2], schedule[1].keyframe_positions)

\* An earlier call the caller still holds the results of.
Earlier == prev[1]

\* C15 (idempotence): a call returns the schedule and mask an earlier call
\* with identical inputs returned, whatever was called in between, and a new
\* call starts from nothing an earlier call computed.
C15_Idempotent ==
    /\ [](( pc = "returned" /\ prev # <<>>
             /\ Earlier.args = args /\ Earlier.opaque = opaque) =>
           (schedule[1] = Earlier.schedule /\ masks = Earlier.masks))
    /\ [][(pc = "returned" /\ pc' = "loop") =>
             /\ windows' = <<>>
             /\ start' = 0
             /\ schedule' = <<>>
             /\ masks' = <<>>
             /\ context_options' = <<>>
             /\ encoder_calls' = 0
             /\ ~warned']_vars

\* process has returned a schedule of two windows or more for inputs it had
\* returned a schedule for before.
C15_Witness ==
    /\ pc = "returned"
    /\ entry = "process"
    /\ prev # <<>>
    /\ Earlier.args = args
    /\ Earlier.opaque = opaque
    /\ Len(windows) >= 2

\* The quality is below 0.5.
PoorQuality(q) == q.num * 2 < q.den

\* C16 (quality is diagnostic only): the step that computes the quality
\* leaves the window list as the partition made it and always returns, so
\* the schedule returned holds those windows and no error, also when the
\* quality is below 0.5 (process then prints the warning).
C16_QualityDiagnostic ==
    /\ [](pc = "returned" =>
            /\ error = ""
            /\ schedule[1].windows = windows
            /\ entry = "process" =>
                  /\ context_options[1].context_schedule = windows
                  /\ warned <=> PoorQuality(schedule[1].alignment_quality))
    /\ [][pc = "assess" =>
             (pc' = "returned" /\ windows' = windows /\ error' = "")]_vars

\* process has returned a schedule of quality below 0.5 with the warning.
C16_Witness ==
    /\ pc = "returned"
    /\ entry = "process"
    /\ warned
    /\ PoorQuality(schedule[1].alignment_quality)
    /\ Len(schedule[1].windows) >= 2

\* C20: two process calls that agree on keyframe count, multiplier, window
\* size, overlap and force_alignment and differ in the vae, the keyframe
\* content or vace_strength return the same schedule (windows, window size,
\* quality, keyframe positions) and the same mask.
C20_ScheduleIgnoresOpaque ==
    (pc = "returned" /\ entry = "process" /\ prev # <<>>
        /\ Earlier.args = args /\ Earlier.opaque # opaque) =>
        /\ schedule[1] = Earlier.schedule
        /\ masks = Earlier.masks
        /\ context_options[1].context_schedule = Earlier.schedule.windows
        /\ context_options[1].masks = Earlier.masks

\* process has returned for the arguments of an earlier call with another
\* vace_strength, and for another vae and other keyframe content.
C20_Witness ==
    /\ pc = "returned"
    /\ entry = "process"
    /\ prev # <<>>
    /\ Earlier.args = args
    /\ Earlier.opaque.vace_strength # opaque.vace_strength
    /\ Earlier.opaque.keyframes # opaque.keyframes
    /\ Earlier.opaque.vae # opaque.vae
    /\ Len(windows) >= 2

\* The windows _calculate_window_boundaries returns when nothing else runs:
\* the loop from `from` on, `wins` emitted so far.
RECURSIVE AlonePartition(_, _, _, _, _)
AlonePartition(total, window_size, overlap, from, wins) ==
    IF ~(from < total) THEN wins
    ELSE LET end == IF from + window_size <= total THEN from + window_size ELSE total
         IN  IF end >= total
                THEN Append(wins, <<from, end>>)
                ELSE AlonePartition(total, window_size, overlap, end - overlap,
                                    Append(wins, <<from, end>>))

\* The schedule a call with arguments `a` returns when it runs alone.
AloneSchedule(a) ==
    LET total == (a.num_keyframes - 1) * a.interpolation_multiplier + 1
        positions == [k \in 1..a.num_keyframes |->
                         (k - 1) * a.interpolation_multiplier]
        size == IF a.force_alignment
                   THEN FindOptimalWindowSize(a.context_window_size,
                                              a.interpolation_multiplier, total)
                   ELSE a.context_window_size
        wins == AlonePartition(total, size, a.overlap_frames, 0, <<>>)
        at(x) == \E k \in 1..a.num_keyframes : positions[k] = x
        matched == Cardinality({i \in 1..Len(wins) : at(wins[i][1])})
                   + Cardinality({i \in 1..Len(wins) : at(wins[i][2])})
    IN  [total_frames |-> total,
         keyframe_positions |-> positions,
         interpolation_multiplier |-> a.interpolation_multiplier,
         optimal_window_size |-> size,
         windows |-> wins,
         alignment_quality |->
             IF wins = <<>> \/ positions = <<>>
                THEN [num |-> 0, den |-> 1]
                ELSE [num |-> matched, den |-> 2 * Len(wins)]]

\* The mask of a call with arguments `a`.
AloneMasks(a) ==
    [p \in 1..((a.num_keyframes - 1) * a.interpolation_multiplier + 1) |->
        IF (p - 1) % a.interpolation_multiplier = 0 THEN 0 ELSE 1]

\* A call running with nothing beside it returns AloneSchedule and
\* AloneMasks whenever its loop ends.
AloneIsSequential ==
    (pc = "returned" /\ other.pc = "idle") =>
        /\ schedule[1] = AloneSchedule(args)
        /\ (entry = "process") => masks = AloneMasks(args)

\* C19 (reentrancy): with two process calls running at once on inputs of
\* their own, under every interleaving each returns the schedule and mask
\* (or raises the error) it does when run alone, and no step of one call
\* changes anything of the other.
C19_Reentrant ==
    /\ [](pc = "returned" =>
            (schedule[1] = AloneSchedule(args) /\ masks = AloneMasks(args)))
    /\ [](other.pc = "returned" =>
            /\ other.schedule = << AloneSchedule(other.args) >>
            /\ other.masks = AloneMasks(other.args))
    /\ []((pc = "raised") <=>
            (entry = "process" /\ args.num_keyframes < MinKeyframes))
    /\ []((other.pc = "raised") <=> (other.args.num_keyframes = 1))
    /\ [][(other' # other) => (first' = first)]_vars
    /\ [][(first' # first) => (other' = other)]_vars

\* Two calls on different inputs have both returned schedules of two
\* windows or more, and the second ran while the first was inside its call.
C19_Witness ==
    /\ pc = "returned"
    /\ other.pc = "returned"
    /\ other.overlapped
    /\ other.args # args
    /\ Len(windows) >= 2
    /\ Len(other.windows) >= 2
    /\ schedule[1] # other.schedule[1]

\* ------------------------------------------------- the claims (batcher)
\* The valid listed folders: the directories with image files that the
\* lines of folder_paths name, in listed order.
ListedFolders ==
    LET lines == Split(Strip(folder_paths), "\n")
        paths == [i \in 1..Len(lines) |-> SanitizePath(lines[i])]
    IN  SelectSeq(paths, LAMBDA p : /\ p # <<>>
                                    /\ IsDir(disk, p)
                                    /\ disk[p].listable
                                    /\ Len(ImageFiles(disk, p)) > 0)

\* The image files of folder p, as the paths load_batch opens.
ImagesOf(p) ==
    { <<p, ImageFiles(disk, p)[i]>> : i \in 1..Len(ImageFiles(disk, p)) }

\* The number of batches the images of folder p fill.
BatchesOf(p) ==
    CHOOSE n \in 1..Cardinality(ImagesOf(p)) :
        /\ n * batch_size >= Cardinality(ImagesOf(p))
        /\ (n - 1) * batch_size < Cardinality(ImagesOf(p))

\* The batches of the listed folders before the j-th.
RECURSIVE BatchesBefore(_)
BatchesBefore(j) ==
    IF j <= 1 THEN 0 ELSE BatchesBefore(j - 1) + BatchesOf(ListedFolders[j - 1])

\* What total_batches has to be.
AllBatches == BatchesBefore(Len(ListedFolders) + 1)

\* The files the runs lo..hi selected, in order.
RECURSIVE Selected(_, _)
Selected(lo, hi) ==
    IF lo > hi THEN <<>> ELSE runs[lo].files \o Selected(lo + 1, hi)

\* load_batch has run with batch_index = 0, 1, ..., total_batches - 1.
FullPass ==
    /\ stage = "ran"
    /\ batch_error = ""
    /\ runs # <<>>
    /\ \A k \in 1..Len(runs) : runs[k].batch_index = k - 1
    /\ Len(runs) = output[1].result.total_batches

\* C21 (stepping through all folders): with unchanged folder contents and
\* any sort_method, the runs of load_batch with batch_index = 0, 1, ...,
\* total_batches - 1 select every image file of every valid listed folder
\* exactly once, folders in listed order: the j-th listed folder has the
\* runs after those of the folders before it, each of these runs outputs
\* that folder as folder_path and selects files of that folder only, and
\* together they select each image file of the folder once.
C21_StepsThroughAll ==
    FullPass =>
        /\ Len(runs) = AllBatches
        /\ \A j \in 1..Len(ListedFolders) :
              LET p == ListedFolders[j]
                  lo == BatchesBefore(j) + 1
                  hi == BatchesBefore(j) + BatchesOf(p)
                  sel == Selected(lo, hi)
              IN  /\ \A k \in lo..hi :
                        /\ runs[k].folder_path = p
                        /\ \A i \in 1..Len(runs[k].files) : runs[k].files[i][1] = p
                  /\ Len(sel) = Cardinality(ImagesOf(p))
                  /\ { sel[i] : i \in 1..Len(sel) } = ImagesOf(p)

\* C22 (exhaustion): a run of load_batch with batch_index >= total_batches
\* (total_batches = 0 included) does not read batch_map[batch_index] and
\* raises nothing; it returns batch_count 0, the empty folder_path and the
\* total_batches of the listed folders, with UI status DONE when
\* total_batches > 0 and EMPTY when total_batches = 0.
C22_Exhaustion ==
    (stage = "ran" /\ batch_index >= AllBatches) =>
        /\ ~descriptor_read
        /\ batch_error = ""
        /\ output # <<>>
        /\ output[1].result.batch_count = 0
        /\ output[1].result.images = <<>>
        /\ output[1].result.folder_path = <<>>
        /\ output[1].result.total_batches = AllBatches
        /\ output[1].ui.total_batches = AllBatches
        /\ output[1].ui.batch_count = 0
        /\ output[1].ui.folder_path = (IF AllBatches > 0 THEN Done ELSE Empty)

\* A run just past the last batch of two listed folders: status DONE.
C22_Witness ==
    /\ stage = "ran"
    /\ Len(ListedFolders) >= 2
    /\ batch_index = AllBatches
    /\ Len(runs) = AllBatches + 1
    /\ output # <<>>
    /\ output[1].ui.folder_path = Done

\* C23 (ordering inside process): the encoder is invoked exactly once per
\* successful call of process and not at all in a call that is still
\* validating or partitioning, or that raised; the one invocation happens
\* in the step that follows the partition of validated inputs, with the
\* schedule and the mask in hand; and the returned context record carries
\* the windows, window size, total_frames, keyframe positions and quality
\* of the returned schedule (and the mask returned with it).
C23_EncoderOrdering ==
    /\ [](entry = "process" =>
             /\ encoder_calls = (IF pc = "returned" THEN 1 ELSE 0)
             /\ pc = "returned" =>
                   /\ schedule # <<>> /\ context_options # <<>>
                   /\ context_options[1].context_schedule = schedule[1].windows
                   /\ context_options[1].window_size = schedule[1].optimal_window_size
                   /\ context_options[1].total_frames = schedule[1].total_frames
                   /\ context_options[1].keyframe_positions
                         = schedule[1].keyframe_positions
                   /\ context_options[1].alignment_quality
                         = schedule[1].alignment_quality
                   /\ context_options[1].masks = masks)
    /\ [][encoder_calls' > encoder_calls =>
             /\ entry = "process" /\ pc = "assess" /\ ValidInputs /\ error = ""
             /\ encoder_calls' = encoder_calls + 1
             /\ pc' = "returned"
             /\ schedule' # <<>> /\ schedule'[1].windows = windows
             /\ masks' = CreateInterpolationMasks(total_frames, keyframe_positions)]_vars

\* A second successful call of process, with several windows: the encoder
\* has been invoked once in this call.
C23_Witness ==
    /\ entry = "process" /\ pc = "returned"
    /\ prev # <<>>
    /\ encoder_calls = 1
    /\ Len(windows) >= 2

\* C24 (mask polarity): for every schedule calculate_optimal_alignment
\* returns with a frame in it, the mask create_interpolation_masks builds
\* from it holds 0 (0.0, black) at every keyframe position and 1 (1.0,
\* white) at every other frame index of [0, total_frames); the mask process
\* returns is this mask.
C24_MaskPolarity ==
    (pc = "returned" /\ total_frames >= 1) =>
        LET sched == schedule[1]
            mask == CreateInterpolationMasks(sched.total_frames,
                                             sched.keyframe_positions)
        IN  /\ DOMAIN mask = 1..sched.total_frames
            /\ \A k \in 1..Len(sched.keyframe_positions) :
                  mask[sched.keyframe_positions[k] + 1] = 0
            /\ \A p \in 0..(sched.total_frames - 1) :
                  ~In(p, sched.keyframe_positions) => mask[p + 1] = 1
            /\ entry = "process" => masks = mask

\* process has returned a mask for three keyframes or more: black at the
\* first, an inner and the last keyframe, white in between.
C24_Witness ==
    /\ pc = "returned" /\ entry = "process"
    /\ args.num_keyframes >= 3
    /\ masks[1] = 0 /\ masks[2] = 1
    /\ masks[args.interpolation_multiplier + 1] = 0
    /\ masks[total_frames] = 0

\* C25 (quality strictly between 0 and 1): for every schedule of valid
\* inputs (num_keyframes >= 2, multiplier >= 6, 0 <= overlap < window size)
\* the first window's start 0 is a keyframe position, the last window's end
\* is total_frames while the last keyframe is at total_frames - 1, and so
\* the quality score / (2 * count) has 1 <= score <= 2 * count - 1.
C25_QualityStrict ==
    (pc = "returned" /\ ValidInputs /\ ForwardProgress) =>
        LET sched == schedule[1]
            q == sched.alignment_quality
            count == Len(sched.windows)
            positions == sched.keyframe_positions
        IN  /\ count >= 1
            /\ sched.windows[1][1] = 0
            /\ In(0, positions)
            /\ sched.windows[count][2] = sched.total_frames
            /\ positions[Len(positions)] = sched.total_frames - 1
            /\ ~In(sched.total_frames, positions)
            /\ q.den = 2 * count
            /\ 1 <= q.num
            /\ q.num <= 2 * count - 1
            /\ 0 < q.num /\ q.num < q.den

\* A schedule of valid inputs with two windows or more whose quality is the
\* largest there is, (2 * count - 1) / (2 * count).
C25_Witness ==
    /\ pc = "returned" /\ ValidInputs /\ ForwardProgress
    /\ Len(windows) >= 2
    /\ schedule[1].alignment_quality.num = 2 * Len(windows) - 1
    /\ schedule[1].alignment_quality.den = 2 * Len(windows)

\* C26 (termination inside the declared ranges): for two keyframes or
\* more, interpolation_multiplier in 6..16, context_window_size in 16..128,
\* overlap_frames in 1..8 and either force_alignment, the effective window
\* size is greater than overlap_frames or equal to total_frames; in the
\* second case the partition is the single window (0, total_frames); and
\* every call that enters the partition loop returns.
C26_UiTerminates ==
    /\ [](InAlignment =>
             /\ \/ optimal_window_size > args.overlap_frames
                \/ optimal_window_size = total_frames
             /\ (PartitionDone /\ optimal_window_size = total_frames) =>
                   windows = << <<0, total_frames>> >>
             /\ Len(windows) < MaxIterations)
    /\ (pc = "loop") ~> (pc = "returned")

\* A call inside the ranges has returned the single window of a timeline
\* no longer than the overlap.
C26_Witness ==
    /\ pc = "returned"
    /\ args \in UiArgs
    /\ optimal_window_size = total_frames
    /\ optimal_window_size <= args.overlap_frames
    /\ windows = << <<0, total_frames>> >>

\* C27 (window lengths): when 0 <= overlap < window size, every window
\* followed by another has exactly window_size frames and every window
\* after the first ends later than the one before it, so it brings at least
\* one frame the one before does not cover; in a finished partition of two
\* windows or more the last window has more than overlap and at most
\* window_size frames.
C27_WindowLengths ==
    (InAlignment /\ ForwardProgress) =>
        /\ \A i \in 1..(Len(windows) - 1) :
              windows[i][2] - windows[i][1] = optimal_window_size
        /\ \A i \in 2..Len(windows) : windows[i][2] > windows[i - 1][2]
        /\ (PartitionDone /\ Len(windows) >= 2) =>
              /\ LastWindow[2] - LastWindow[1] > args.overlap_frames
              /\ LastWindow[2] - LastWindow[1] <= optimal_window_size

\* A finished partition of three windows or more whose last window is
\* shorter than the others and brings a single new frame.
C27_Witness ==
    /\ PartitionDone /\ ForwardProgress
    /\ Len(windows) >= 3
    /\ args.overlap_frames >= 1
    /\ LastWindow[2] - LastWindow[1] = args.overlap_frames + 1
    /\ LastWindow[2] - LastWindow[1] < optimal_window_size

\* No candidate (spacing * k >= 16 for k = 1..9, or the desired size) is
\* <= total_frames.
NoCandidateFits ==
    /\ args.context_window_size > total_frames
    /\ \A k \in RefMultipliers(args.interpolation_multiplier) :
          args.interpolation_multiplier * k > total_frames

\* C28 (forced size within the timeline): with force_alignment = true and a
\* timeline of one frame or more, the selected window size never exceeds
\* total_frames; when no candidate is <= total_frames it is exactly
\* total_frames, and the finished partition is then the single window
\* (0, total_frames) whatever the overlap is.
C28_ForcedSizeFits ==
    (InAlignment /\ args.force_alignment /\ total_frames >= 1) =>
        /\ optimal_window_size <= total_frames
        /\ NoCandidateFits =>
              /\ optimal_window_size = total_frames
              /\ PartitionDone => windows = << <<0, total_frames>> >>
              /\ pc = "loop" => (windows = <<>> /\ start = 0)

\* A forced call of process has returned with the fallback size: one window
\* over the whole timeline, with an overlap of more than a frame.
C28_Witness ==
    /\ pc = "returned" /\ entry = "process"
    /\ args.force_alignment
    /\ NoCandidateFits
    /\ args.overlap_frames >= 2
    /\ args.context_window_size >= MinCandidate
    /\ windows = << <<0, total_frames>> >>

====
